---- MODULE Spec2Model ----
(***************************************************************************)
(* A model of the 52-week-high pipeline: the ingestion of a screener       *)
(* extract into the SQLite table `highs` (src/Data/highs_pipeline.py,      *)
(* HighsIngestor), the runs of the pipeline (main: settings, download,     *)
(* ingest, archive), the momentum summary the dashboard computes from the  *)
(* table (src/db_utils.py, get_momentum_summary) and the dashboard's pages *)
(* (src/views).                                                            *)
(*                                                                         *)
(* Dates are day numbers.  The code stores a date as its ISO 8601 text     *)
(* (YYYY-MM-DD) and SQLite compares those texts; the order of the texts is *)
(* the order of the days, so MIN, MAX and >= on day numbers are what the   *)
(* queries compute.                                                        *)
(***************************************************************************)
EXTENDS Integers, Sequences, FiniteSets, TLC

\* ------------------------------------------------------------------------
\* Bounds of the model
\* ------------------------------------------------------------------------

\* The table holds at most this many rows (committed and uncommitted).
MaxRows == 3

\* An extract holds at most this many data rows.
MaxExtractRows == 2

\* The table holds at most this many rows where the summary is computed.
MaxSummaryRows == 2

\* One extract file is handed to ingest at most this many times.
MaxIngests == 2

\* main is run at most this many times.
MaxRuns == 3

\* A summary frame handed to a top-performers page holds at most this many
\* rows.
MaxTopRows == 2

\* Company names of the extracts.
Names == {"A", "B"}

\* Market capitalizations of the extracts.
Caps == {100, 150}

\* Observation dates an extract's file name can carry.
Dates == {1, 54}

\* The days on which the programs run.
Todays == {31, 32, 61, 62}

\* ------------------------------------------------------------------------
\* Values
\* ------------------------------------------------------------------------

\* SQL NULL / Python None / a NaN of a data frame read back from SQL.
NULL == -1

\* A cell pandas read as NaN (an empty cell of the CSV).
NaN == [kind |-> "nan", v |-> 0]

\* A cell holding text that float() cannot parse.
BadText == [kind |-> "text", v |-> 0]

\* A cell holding a number.
Num(x) == [kind |-> "num", v |-> x]

\* The name cell of a CSV row that has no name (pandas reads it as NaN).
NoName == "<NaN>"

\* The two columns _ingest_file requires.
required == {"Name", "Market Capitalization"}

\* Header lines of the extracts: the column names as the file spells them.
HeaderSets ==
    { {"Name", "Market Capitalization"},
      {" Name", "Market Capitalization "},
      {"name", "Market Capitalization"},
      {"Name"},
      {"Market Capitalization"} }

\* str.strip() on the header names of the model.
Strip(h) ==
    CASE h = " Name" -> "Name"
      [] h = "Market Capitalization " -> "Market Capitalization"
      [] OTHER -> h

\* The rows an extract can hold: a named row with a number, an empty cell or
\* unparseable text as its market cap, a row whose market cap is the number
\* zero, and a row without a name.
ExtractRows ==
    [Name : Names, MarketCap : {Num(c) : c \in Caps} \cup {NaN}]
    \cup {[Name |-> "A", MarketCap |-> BadText],
          [Name |-> "B", MarketCap |-> Num(0)],
          [Name |-> NoName, MarketCap |-> Num(100)]}

RECURSIVE SeqsUpTo(_, _)
SeqsUpTo(S, n) ==
    IF n = 0 THEN {<<>>}
    ELSE LET shorter == SeqsUpTo(S, n - 1)
         IN shorter \cup {Append(s, x) : s \in {t \in shorter : Len(t) = n - 1}, x \in S}

\* The extracts: a header, the date of the file name, the data rows.
Extracts ==
    [columns : HeaderSets, date : Dates, rows : SeqsUpTo(ExtractRows, MaxExtractRows)]

\* The extracts of at most `room` rows.
ExtractsUpTo(room) ==
    IF room >= MaxExtractRows THEN Extracts
    ELSE [columns : HeaderSets, date : Dates, rows : SeqsUpTo(ExtractRows, room)]

\* ------------------------------------------------------------------------
\* State
\* ------------------------------------------------------------------------

VARIABLES
    store,      \* the committed rows of table highs, in insertion order
    txn,        \* the rows the ingesting connection has inserted and not committed
    pc,         \* "idle", or "rows" while _ingest_file is in its loop
    remaining,  \* how many rows of the extract the loop has not reached yet
    load_date,  \* the date of the extract being ingested
    inserted_rows, \* the count _ingest_file keeps of the rows it inserted
    call,       \* what the last ingest call was given and found
    ret,        \* how the last ingest call ended: "none", "returned", "raised"
    seen,       \* what the last step's query of the table returned, if it was one
    today,      \* datetime.date.today()
    cache,      \* st.cache_data's entry for get_momentum_summary, or NoCache
    sumCall,    \* the last step's get_momentum_summary call: "none", "miss", "hit"
    dates_cache, \* st.cache_data's entry for get_all_dates, or NoCache
    data_cache, \* st.cache_data's entries for get_data_for_date, one per date
    view,       \* what the last step's run of a dashboard page showed, if it was one
    grouped,    \* the last step's grouped display and the frame it was given
    csv_path,   \* the extract file a caller keeps handing to ingest, or NoFile
    ingests,    \* how many ingest calls have been made on the file at csv_path
    stage,      \* the step main is about to take, "idle" between two runs
    exit_status, \* the exit status of the last run of main, NULL while it runs
    run,        \* how each step of the current or last run ended, what it logged
    runs,       \* how many runs of main have begun
    download_dir, \* the *.csv files of the download directory, oldest first
    archive_dir, \* the files of the archive directory
    csv_file,   \* the name of the file download() returned to main
    ingested,   \* the downloads whose file an ingest call of a run has committed
    top,        \* the top-performers page in use and the summary frame it is given
    session,    \* the page's session: the radio, st.session_state
    rerun       \* what the last step's run of the page was caused by and started from

\* The file handed to ingest again and again, and the count of those calls.
fileVars == <<csv_path, ingests>>

vars == <<store, txn, pc, remaining, load_date, inserted_rows, call, ret, seen,
          today, cache, sumCall, dates_cache, data_cache, view, grouped,
          csv_path, ingests, stage, exit_status, run, runs, download_dir,
          archive_dir, csv_file, ingested, top, session, rerun>>

\* The state of the top-performers page.
topVars == <<top, session, rerun>>

\* The state of the pipeline runs.
runVars == <<stage, exit_status, run, runs, download_dir, archive_dir, csv_file,
             ingested>>

\* No file is kept at hand for repeated ingest calls.
NoFile == [columns |-> {}, date |-> NULL, rows |-> <<>>]

\* The last step was no query of the table.
NotRead == [rows |-> <<>>, during |-> FALSE]

\* st.cache_data holds no entry for the call.
NoCache == [present |-> FALSE, df |-> <<>>]

\* st.cache_data holds no entry for any call of get_data_for_date.
NoData == [d \in Dates |-> NoCache]

\* The last step displayed no groups.
NoGroups == [page |-> "none", filtered_df |-> <<>>, groups |-> <<>>]

\* The last step was no run of a dashboard page.
NoView ==
    [page |-> "none", mode |-> "none", start_date |-> NULL, end_date |-> NULL,
     min_hits |-> NULL, min_gain |-> NULL, fresh |-> FALSE, rows |-> <<>>]

\* ------------------------------------------------------------------------
\* Ingestion (HighsIngestor)
\* ------------------------------------------------------------------------

RECURSIVE SeqMin(_)
\* The least element of a non-empty sequence of numbers.
SeqMin(s) ==
    IF Len(s) = 1 THEN s[1]
    ELSE LET m == SeqMin(Tail(s)) IN IF s[1] < m THEN s[1] ELSE m

RECURSIVE SeqMax(_)
\* The greatest element of a non-empty sequence of numbers.
SeqMax(s) ==
    IF Len(s) = 1 THEN s[1]
    ELSE LET m == SeqMax(Tail(s)) IN IF s[1] > m THEN s[1] ELSE m

\* The rows of a table that carry the given company name (WHERE name = ?).
RowsOf(tbl, name) == SelectSeq(tbl, LAMBDA r : r.name = name)

\* The values of one column of a sequence of rows, NULLs left out, as the
\* SQL aggregates see them.
DateColumn(rows) == [i \in 1..Len(rows) |-> rows[i].date]
CapColumn(rows) ==
    LET known == SelectSeq(rows, LAMBDA r : r.market_cap # NULL)
    IN [i \in 1..Len(known) |-> known[i].market_cap]

\* SQL MIN over a column: NULL when there is no value.
SqlMin(col) == IF Len(col) = 0 THEN NULL ELSE SeqMin(col)

\* SQL MAX over a column: NULL when there is no value.
SqlMax(col) == IF Len(col) = 0 THEN NULL ELSE SeqMax(col)

\* HasRequired that is content with one of the required columns.
HasAnyRequired(columns) == required \cap {Strip(h) : h \in columns} # {}

\* HasRequired on the header names as the file spells them, untrimmed.
HasRequiredUntrimmed(columns) == required \subseteq columns

\* df.columns.str.strip(), then required.issubset(df.columns).
HasRequired(columns) == required \subseteq {Strip(h) : h \in columns}

\* pd.isna(name): the row is skipped.
NameMissing(row) == row.Name = NoName

\* CapUnparseable of a float() that parses every cell.
NeverUnparseable(row) == FALSE

\* float(row["Market Capitalization"]) raises ValueError or TypeError: the
\* row is skipped.  float() of a NaN cell raises nothing.
CapUnparseable(row) == row.MarketCap.kind = "text"

\* The market cap the INSERT binds: float() of the cell; SQLite stores a
\* NaN as NULL.
BoundCap(row) == IF row.MarketCap.kind = "num" THEN row.MarketCap.v ELSE NULL

\* FirstSeen without its look-up: every row is its own first sighting.
FirstSeenAlwaysOwn(visible, name, date, market_cap) ==
    [first_seen_date |-> date, first_market_cap |-> market_cap]

\* SELECT MIN(date), MIN(market_cap) FROM highs WHERE name = ?, and the
\* fallback to the row's own date and market cap when MIN(date) is NULL.
\* `visible` is what the ingesting connection sees: the committed rows and
\* its own uncommitted ones.
FirstSeen(visible, name, date, market_cap) ==
    LET prior == RowsOf(visible, name)
        min_date == SqlMin(DateColumn(prior))
        min_cap == SqlMin(CapColumn(prior))
    IN IF min_date = NULL
       THEN [first_seen_date |-> date, first_market_cap |-> market_cap]
       ELSE [first_seen_date |-> min_date, first_market_cap |-> min_cap]

\* The row the loop body inserts for one accepted extract row.
NewRow(visible, row, date) ==
    LET market_cap == BoundCap(row)
        first == FirstSeen(visible, row.Name, date, market_cap)
    IN [date |-> date,
        name |-> row.Name,
        market_cap |-> market_cap,
        first_seen_date |-> first.first_seen_date,
        first_market_cap |-> first.first_market_cap]

\* Execute on a connection in autocommit mode: every INSERT is committed
\* at once.
ExecuteAutocommit(st, tx, r) == [store |-> Append(st \o tx, r), txn |-> <<>>]

\* conn.execute(INSERT ...): the row joins the connection's open
\* transaction; nothing is committed before conn.commit() after the loop.
Execute(st, tx, r) == [store |-> st, txn |-> Append(tx, r)]

\* Commit that rewrites the table with the transaction's rows.
CommitReplaces(st, tx) == tx

\* conn.commit(): the transaction's rows are appended to the table.
Commit(st, tx) == st \o tx

\* The rows of an extract the specification calls valid: a name, and a
\* market cap that is a number.
ValidRow(row) == row.Name # NoName /\ row.MarketCap.kind = "num"

CountValid(rows) == Len(SelectSeq(rows, ValidRow))

\* The extracts the specification accepts: a company-name column and a
\* market-capitalization column, whitespace around the names aside.
HasBothColumns(columns) ==
    /\ \E h \in columns : Strip(h) = "Name"
    /\ \E h \in columns : Strip(h) = "Market Capitalization"

\* What a query on another connection reads while a transaction is open:
\* SQLite shows it the committed rows only.
ReadCommitted(st, tx) == st

\* One pass of the loop `for _, row in df.iterrows()` on the state `s` of
\* the call (the committed rows, the open transaction, inserted_rows): a
\* row without a name or with an unparseable market cap is skipped, any
\* other row is inserted with its first-seen values.
LoopBody(s, row, date) ==
    IF NameMissing(row) \/ CapUnparseable(row)
    THEN s
    ELSE LET after == Execute(s.store, s.txn, NewRow(s.store \o s.txn, row, date))
         IN [store |-> after.store,
             txn |-> after.txn,
             inserted_rows |-> s.inserted_rows + 1]

RECURSIVE Loop(_, _, _)
\* The whole loop over the rows of the extract, in the extract's order.
Loop(s, rows, date) ==
    IF rows = <<>> THEN s
    ELSE Loop(LoopBody(s, Head(rows), date), Tail(rows), date)

\* What is recorded of an ingest call for the properties below: whether the
\* extract has both required columns, how many of its rows are valid, and
\* how many rows the table held when the call began.
CallOf(ex, st) ==
    [complete |-> HasBothColumns(ex.columns),
     valid |-> CountValid(ex.rows),
     start |-> Len(st)]

\* ingest(csv_path) on an extract whose stripped header lacks a required
\* column: the table is created, _ingest_file logs a warning and returns
\* before it takes the date or reads a row.  The rows of such an extract
\* are never looked at, so the extract is drawn as its header and the
\* number of valid rows it holds.
IngestRejected ==
    /\ pc = "idle"
    /\ \E columns \in HeaderSets, valid \in 0..MaxExtractRows :
        /\ ~HasRequired(columns)
        /\ call' = [complete |-> HasBothColumns(columns),
                    valid |-> valid,
                    start |-> Len(store)]
    /\ inserted_rows' = 0
    /\ ret' = "returned"
    /\ seen' = NotRead
    /\ sumCall' = "none"
    /\ UNCHANGED <<store, txn, pc, remaining, load_date, today, cache>>
    /\ view' = NoView
    /\ UNCHANGED <<dates_cache, data_cache>>
    /\ grouped' = NoGroups
    /\ UNCHANGED fileVars
    /\ UNCHANGED runVars
    /\ UNCHANGED topVars

\* ingest(csv_path) up to the loop of _ingest_file, on an extract whose
\* stripped header has the required columns: the table is created, the
\* date is taken from the file name and the loop starts.  The rows of the
\* extract are drawn one by one as the loop reaches them.
IngestBegin ==
    /\ pc = "idle"
    /\ \E columns \in HeaderSets, date \in Dates, n \in 0..MaxExtractRows :
        /\ Len(store) + n <= MaxRows
        /\ HasRequired(columns)
        /\ remaining' = n
        /\ load_date' = date
        /\ call' = [complete |-> HasBothColumns(columns),
                    valid |-> 0,
                    start |-> Len(store)]
    /\ pc' = "rows"
    /\ txn' = <<>>
    /\ inserted_rows' = 0
    /\ ret' = "none"
    /\ seen' = NotRead
    /\ sumCall' = "none"
    /\ UNCHANGED <<store, today, cache>>
    /\ view' = NoView
    /\ UNCHANGED <<dates_cache, data_cache>>
    /\ grouped' = NoGroups
    /\ UNCHANGED fileVars
    /\ UNCHANGED runVars
    /\ UNCHANGED topVars

\* One pass of the loop, on the next row of the extract.
IngestRow ==
    /\ pc = "rows"
    /\ remaining > 0
    /\ \E row \in ExtractRows :
        LET after == LoopBody([store |-> store, txn |-> txn,
                               inserted_rows |-> inserted_rows],
                              row, load_date)
        IN /\ store' = after.store
           /\ txn' = after.txn
           /\ inserted_rows' = after.inserted_rows
           /\ call' = [call EXCEPT !.valid = @ + CountValid(<<row>>)]
    /\ remaining' = remaining - 1
    /\ seen' = NotRead
    /\ sumCall' = "none"
    /\ UNCHANGED <<pc, load_date, ret, today, cache>>
    /\ view' = NoView
    /\ UNCHANGED <<dates_cache, data_cache>>
    /\ grouped' = NoGroups
    /\ UNCHANGED fileVars
    /\ UNCHANGED runVars
    /\ UNCHANGED topVars

\* conn.commit() after the loop, and the return of ingest.
IngestCommit ==
    /\ pc = "rows"
    /\ remaining = 0
    /\ store' = Commit(store, txn)
    /\ txn' = <<>>
    /\ pc' = "idle"
    /\ load_date' = NULL
    /\ ret' = "returned"
    /\ seen' = NotRead
    /\ sumCall' = "none"
    /\ UNCHANGED <<remaining, inserted_rows, call, today, cache>>
    /\ view' = NoView
    /\ UNCHANGED <<dates_cache, data_cache>>
    /\ grouped' = NoGroups
    /\ UNCHANGED fileVars
    /\ UNCHANGED runVars
    /\ UNCHANGED topVars

\* A storage error (sqlite3.Error) raised by a statement of the call: the
\* `with sqlite3.connect(...)` block rolls the transaction back and the
\* exception propagates to the caller of ingest.
IngestFail ==
    /\ pc = "rows"
    /\ txn' = <<>>
    /\ remaining' = 0
    /\ pc' = "idle"
    /\ load_date' = NULL
    /\ ret' = "raised"
    /\ seen' = NotRead
    /\ sumCall' = "none"
    /\ UNCHANGED <<store, inserted_rows, call, today, cache>>
    /\ view' = NoView
    /\ UNCHANGED <<dates_cache, data_cache>>
    /\ grouped' = NoGroups
    /\ UNCHANGED fileVars
    /\ UNCHANGED runVars
    /\ UNCHANGED topVars

\* A whole ingest call that meets no storage error, run to completion.
Ingest ==
    /\ pc = "idle"
    /\ \E ex \in ExtractsUpTo(MaxSummaryRows - Len(store)) :
        /\ call' = CallOf(ex, store)
        /\ IF HasRequired(ex.columns)
           THEN LET end == Loop([store |-> store, txn |-> <<>>, inserted_rows |-> 0],
                                ex.rows, ex.date)
                IN /\ store' = Commit(end.store, end.txn)
                   /\ inserted_rows' = end.inserted_rows
           ELSE /\ store' = store
                /\ inserted_rows' = 0
    /\ ret' = "returned"
    /\ seen' = NotRead
    /\ sumCall' = "none"
    /\ UNCHANGED <<txn, pc, remaining, load_date, today, cache>>
    /\ view' = NoView
    /\ UNCHANGED <<dates_cache, data_cache>>
    /\ grouped' = NoGroups
    /\ UNCHANGED fileVars
    /\ UNCHANGED runVars
    /\ UNCHANGED topVars

\* ingest(csv_path) on the file kept at csv_path, run to completion without
\* a storage error.  Neither ingest nor _ingest_file looks whether the file
\* was ingested before, and neither moves it: the same call can be made
\* again.
IngestFile ==
    /\ pc = "idle"
    /\ csv_path # NoFile
    /\ ingests < MaxIngests
    /\ call' = CallOf(csv_path, store)
    /\ IF HasRequired(csv_path.columns)
       THEN LET end == Loop([store |-> store, txn |-> <<>>, inserted_rows |-> 0],
                            csv_path.rows, csv_path.date)
            IN /\ store' = Commit(end.store, end.txn)
               /\ inserted_rows' = end.inserted_rows
       ELSE /\ store' = store
            /\ inserted_rows' = 0
    /\ ingests' = ingests + 1
    /\ ret' = "returned"
    /\ seen' = NotRead
    /\ sumCall' = "none"
    /\ UNCHANGED <<txn, pc, remaining, load_date, today, cache, csv_path>>
    /\ view' = NoView
    /\ UNCHANGED <<dates_cache, data_cache>>
    /\ grouped' = NoGroups
    /\ UNCHANGED runVars
    /\ UNCHANGED topVars

\* A query of table highs by the dashboard, on its own connection
\* (pd.read_sql in db_utils), possibly while an ingest call is running.
Read ==
    /\ seen' = [rows |-> ReadCommitted(store, txn), during |-> pc = "rows"]
    /\ sumCall' = "none"
    /\ UNCHANGED <<store, txn, pc, remaining, load_date, inserted_rows, call, ret,
                   today, cache>>
    /\ view' = NoView
    /\ UNCHANGED <<dates_cache, data_cache>>
    /\ grouped' = NoGroups
    /\ UNCHANGED fileVars
    /\ UNCHANGED runVars
    /\ UNCHANGED topVars

\* ------------------------------------------------------------------------
\* Momentum summary (get_momentum_summary)
\* ------------------------------------------------------------------------

\* HitRows with the window turned round (date <= since).
HitRowsBefore(tbl, day, days, name) ==
    SelectSeq(tbl, LAMBDA r : r.name = name /\ r.date <= day - days)

\* HitRows with a window that leaves its first day out (date > since).
HitRowsAfter(tbl, day, days, name) ==
    SelectSeq(tbl, LAMBDA r : r.name = name /\ r.date > day - days)

\* _hit_counts(days): SELECT name, COUNT(*) FROM highs WHERE date >= since
\* GROUP BY name, with since = today - days.  The result of the query for
\* one name: its count, or no row at all (NULL here) when the count is 0.
HitRows(tbl, day, days, name) ==
    SelectSeq(tbl, LAMBDA r : r.name = name /\ r.date >= day - days)

hit_counts(tbl, day, days, name) ==
    LET n == Len(HitRows(tbl, day, days, name))
    IN IF n = 0 THEN NULL ELSE n

\* SELECT name, MAX(date) AS max_date FROM highs GROUP BY name.
max_date(tbl, name) == SqlMax(DateColumn(RowsOf(tbl, name)))

\* SELECT h1.* FROM highs h1 JOIN (...) h2 ON h1.name = h2.name AND
\* h1.date = h2.max_date: every row that carries its company's latest date.
latest(tbl) == SelectSeq(tbl, LAMBDA h1 : h1.date = max_date(tbl, h1.name))

\* gain_mc relative to the latest market cap instead of the first one.
gain_over_latest(market_cap, first_market_cap) ==
    IF market_cap = NULL \/ first_market_cap = NULL \/ market_cap = 0
    THEN [kind |-> "nan", num |-> 0, den |-> 1]
    ELSE [kind |-> "num",
          num |-> 100 * (market_cap - first_market_cap),
          den |-> market_cap]

\* 100 * (market_cap - first_market_cap) / first_market_cap on float
\* columns: NaN with an unknown operand or 0/0, an infinity with a zero
\* divisor, otherwise the quotient, kept as numerator and denominator.
gain_mc(market_cap, first_market_cap) ==
    IF market_cap = NULL \/ first_market_cap = NULL
    THEN [kind |-> "nan", num |-> 0, den |-> 1]
    ELSE IF first_market_cap = 0
    THEN IF market_cap = 0 THEN [kind |-> "nan", num |-> 0, den |-> 1]
         ELSE IF market_cap > 0 THEN [kind |-> "inf", num |-> 0, den |-> 1]
         ELSE [kind |-> "-inf", num |-> 0, den |-> 1]
    ELSE [kind |-> "num",
          num |-> 100 * (market_cap - first_market_cap),
          den |-> first_market_cap]

\* The data frame get_momentum_summary builds on day `day` from the rows
\* `tbl`: one row per row of `latest`, left-joined with the three counts
\* (a name without a count row gets NaN, NULL here).
get_momentum_summary(tbl, day) ==
    LET l == latest(tbl)
    IN [i \in 1..Len(l) |->
          [name |-> l[i].name,
           date |-> l[i].date,
           market_cap |-> l[i].market_cap,
           first_market_cap |-> l[i].first_market_cap,
           first_seen_date |-> l[i].first_seen_date,
           gain_mc |-> gain_mc(l[i].market_cap, l[i].first_market_cap),
           hits_7 |-> hit_counts(tbl, day, 7, l[i].name),
           hits_30 |-> hit_counts(tbl, day, 30, l[i].name),
           hits_60 |-> hit_counts(tbl, day, 60, l[i].name)]]

\* A call of get_momentum_summary through @st.cache_data: without an entry
\* the body runs on the committed rows and its result is kept; with an
\* entry the entry is returned.  The value returned is cache'.
Summarize ==
    /\ IF cache = NoCache
       THEN /\ cache' = [present |-> TRUE, df |-> get_momentum_summary(store, today)]
            /\ sumCall' = "miss"
       ELSE /\ cache' = cache
            /\ sumCall' = "hit"
    /\ seen' = NotRead
    /\ UNCHANGED <<store, txn, pc, remaining, load_date, inserted_rows, call, ret,
                   today>>
    /\ view' = NoView
    /\ UNCHANGED <<dates_cache, data_cache>>
    /\ grouped' = NoGroups
    /\ UNCHANGED fileVars
    /\ UNCHANGED runVars
    /\ UNCHANGED topVars

\* The dashboard process restarts: st.cache_data starts empty.
Restart ==
    /\ cache # NoCache \/ dates_cache # NoCache \/ data_cache # NoData
    /\ cache' = NoCache
    /\ sumCall' = "none"
    /\ seen' = NotRead
    /\ UNCHANGED <<store, txn, pc, remaining, load_date, inserted_rows, call, ret,
                   today>>
    /\ dates_cache' = NoCache
    /\ data_cache' = NoData
    /\ view' = NoView
    /\ grouped' = NoGroups
    /\ UNCHANGED fileVars
    /\ UNCHANGED runVars
    /\ UNCHANGED topVars

\* The calendar moves on.
Tick ==
    /\ \E d \in Todays : d > today /\ today' = d
    /\ sumCall' = "none"
    /\ seen' = NotRead
    /\ UNCHANGED <<store, txn, pc, remaining, load_date, inserted_rows, call, ret,
                   cache>>
    /\ view' = NoView
    /\ UNCHANGED <<dates_cache, data_cache>>
    /\ grouped' = NoGroups
    /\ UNCHANGED fileVars
    /\ UNCHANGED runVars
    /\ UNCHANGED topVars

\* ------------------------------------------------------------------------
\* Daily viewer (views/daily_viewer.py)
\* ------------------------------------------------------------------------

\* The date modes of the page.
DateModes == {"Single Date", "Date Range", "All Dates"}

\* The days the two date inputs can be set to.
RangeDays == {1, 31, 54}

RECURSIVE SortSet(_)
\* sorted(): the numbers of a set in ascending order.
SortSet(S) ==
    IF S = {} THEN <<>>
    ELSE LET m == CHOOSE x \in S : \A y \in S : x <= y
         IN <<m>> \o SortSet(S \ {m})

\* SELECT DISTINCT date FROM highs ORDER BY date.
get_all_dates(tbl) == SortSet({tbl[i].date : i \in 1..Len(tbl)})

\* SELECT * FROM highs WHERE date = ?: the rows of the date, in the order
\* of the table.
get_data_for_date(tbl, selected_date) ==
    SelectSeq(tbl, LAMBDA r : r.date = selected_date)

RECURSIVE concat(_)
\* pd.concat(dfs, ignore_index=True): the frames one after the other.
concat(dfs) == IF dfs = <<>> THEN <<>> ELSE Head(dfs) \o concat(Tail(dfs))

RECURSIVE drop_duplicates_last(_)
\* drop_duplicates that keeps the last row of every name.
drop_duplicates_last(df) ==
    IF df = <<>> THEN <<>>
    ELSE IF \E i \in 2..Len(df) : df[i].name = df[1].name
         THEN drop_duplicates_last(Tail(df))
         ELSE <<df[1]>> \o drop_duplicates_last(Tail(df))

RECURSIVE drop_duplicates(_)
\* daily_df.drop_duplicates(subset=['name']): the first row of every name
\* is kept, in the order of the frame.
drop_duplicates(df) ==
    IF df = <<>> THEN <<>>
    ELSE LET front == drop_duplicates(SubSeq(df, 1, Len(df) - 1))
             last == df[Len(df)]
         IN IF \E i \in 1..Len(front) : front[i].name = last.name
            THEN front
            ELSE Append(front, last)

\* The dates the page reads for a mode and the two date inputs: the chosen
\* date, the stored dates within [start_date, end_date], or all of them.
SelectedDates(dates, mode, start_date, end_date) ==
    CASE mode = "Single Date" -> <<start_date>>
      [] mode = "Date Range" ->
            SelectSeq(dates, LAMBDA d : start_date <= d /\ d <= end_date)
      [] OTHER -> dates

\* The frame the page works on, from the frames of the selected dates.
DailyFrame(mode, dfs) ==
    IF mode = "Single Date" THEN Head(dfs) ELSE drop_duplicates(concat(dfs))

\* A run of the daily viewer up to the frame it goes on to display:
\* get_all_dates and get_data_for_date go through st.cache_data, each call
\* computed from the table when it has no entry and returned from its
\* entry otherwise.  The date inputs are bounded by the first and the last
\* date of the list; a start after the end, or a range without a stored
\* date, ends the run without a frame.
DailyViewer ==
    /\ pc = "idle"
    /\ LET dates == IF dates_cache.present THEN dates_cache.df
                    ELSE get_all_dates(store)
       IN /\ dates_cache' = [present |-> TRUE, df |-> dates]
          /\ IF dates = <<>>
             THEN /\ view' = [NoView EXCEPT !.page = "no data"]
                  /\ data_cache' = data_cache
             ELSE \E mode \in DateModes, start_date \in RangeDays, end_date \in RangeDays :
                    /\ dates[1] <= start_date /\ start_date <= dates[Len(dates)]
                    /\ dates[1] <= end_date /\ end_date <= dates[Len(dates)]
                    /\ mode = "Single Date" =>
                         /\ \E i \in 1..Len(dates) : dates[i] = start_date
                         /\ end_date = start_date
                    /\ mode = "All Dates" =>
                         /\ start_date = dates[1]
                         /\ end_date = dates[Len(dates)]
                    /\ LET selected == SelectedDates(dates, mode, start_date, end_date)
                       IN IF start_date > end_date \/ selected = <<>>
                          THEN /\ view' = [NoView EXCEPT !.page = "no data"]
                               /\ data_cache' = data_cache
                          ELSE LET read == {selected[i] : i \in 1..Len(selected)}
                                   after == [d \in Dates |->
                                               IF d \in read /\ ~data_cache[d].present
                                               THEN [present |-> TRUE,
                                                     df |-> get_data_for_date(store, d)]
                                               ELSE data_cache[d]]
                                   dfs == [i \in 1..Len(selected) |-> after[selected[i]].df]
                               IN /\ data_cache' = after
                                  /\ view' = [page |-> "daily",
                                              mode |-> mode,
                                              start_date |-> start_date,
                                              end_date |-> end_date,
                                              min_hits |-> NULL,
                                              min_gain |-> NULL,
                                              fresh |-> /\ ~dates_cache.present
                                                        /\ \A d \in read : ~data_cache[d].present,
                                              rows |-> DailyFrame(mode, dfs)]
    /\ seen' = NotRead
    /\ sumCall' = "none"
    /\ UNCHANGED <<store, txn, pc, remaining, load_date, inserted_rows, call, ret,
                   today, cache>>
    /\ grouped' = NoGroups
    /\ UNCHANGED fileVars
    /\ UNCHANGED runVars
    /\ UNCHANGED topVars

\* ------------------------------------------------------------------------
\* Momentum summary page (views/momentum_summary.py)
\* ------------------------------------------------------------------------

\* The positions the two sliders are set to.
MinHits == {0, 1, 2}
MinGains == {0, 50}

\* filtered_df["hits_30"] >= min_hits on a float column: False on NaN.
HitsAtLeast(hits_30, min_hits) == hits_30 # NULL /\ hits_30 >= min_hits

\* filtered_df["%_gain_mc"] >= min_gain on a float column: False on NaN,
\* True on +inf.  The denominator of a numeric gain is a positive market
\* cap.
GainAtLeast(g, min_gain) ==
    CASE g.kind = "num" -> g.num >= min_gain * g.den
      [] g.kind = "inf" -> TRUE
      [] OTHER -> FALSE

\* The threshold filter of the page, with the industry filter on 'All'.
ThresholdFilter(df, min_hits, min_gain) ==
    SelectSeq(df, LAMBDA r : /\ HitsAtLeast(r.hits_30, min_hits)
                             /\ GainAtLeast(r.gain_mc, min_gain))

\* A run of the momentum summary page up to the frame it goes on to
\* display: get_momentum_summary through st.cache_data, nothing more when
\* the frame is empty, otherwise the threshold filter with the sliders'
\* values.
MomentumView ==
    /\ pc = "idle"
    /\ LET df == IF cache = NoCache THEN get_momentum_summary(store, today)
                 ELSE cache.df
       IN /\ cache' = [present |-> TRUE, df |-> df]
          /\ sumCall' = IF cache = NoCache THEN "miss" ELSE "hit"
          /\ IF df = <<>>
             THEN view' = [NoView EXCEPT !.page = "no data"]
             ELSE \E min_hits \in MinHits, min_gain \in MinGains :
                    view' = [page |-> "momentum",
                             mode |-> "none",
                             start_date |-> NULL,
                             end_date |-> NULL,
                             min_hits |-> min_hits,
                             min_gain |-> min_gain,
                             fresh |-> cache = NoCache,
                             rows |-> ThresholdFilter(df, min_hits, min_gain)]
    /\ seen' = NotRead
    /\ UNCHANGED <<store, txn, pc, remaining, load_date, inserted_rows, call, ret,
                   today, dates_cache, data_cache>>
    /\ grouped' = NoGroups
    /\ UNCHANGED fileVars
    /\ UNCHANGED runVars
    /\ UNCHANGED topVars

\* ------------------------------------------------------------------------
\* Grouped displays (daily_viewer, momentum_summary, momentum_summary_updated)
\* ------------------------------------------------------------------------

\* A filtered frame holds at most this many rows.
MaxFrameRows == 2

\* The pages that display their filtered frame grouped by industry.
GroupedPages == {"daily_viewer", "momentum_summary", "momentum_summary_updated"}

\* An unknown industry (pd.NA in a string column).
NA == "<NA>"

\* The industries of the frames.
Industries == {"Auto", "Bank", NA}

\* The names of the rows of a frame, by position: a filtered frame of these
\* pages has one row per company.
FrameNames == <<"A", "B", "C">>

\* The columns of a frame row that the grouped displays read.
FrameCells ==
    [industry : Industries, market_cap : Caps, hits_30 : {1, 2}, hits_7 : {NULL, 1}]

\* The filtered frames of at most `rows` rows given to the grouped displays.
FilteredFrames(rows) ==
    UNION { { [i \in 1..n |-> [name |-> FrameNames[i],
                               industry |-> cells[i].industry,
                               market_cap |-> cells[i].market_cap,
                               hits_30 |-> cells[i].hits_30,
                               hits_7 |-> cells[i].hits_7]]
              : cells \in [1..n -> FrameCells] }
            : n \in 0..rows }

\* filtered_df[group_by_col].fillna("None").
fillna(df) ==
    [i \in 1..Len(df) |->
        IF df[i].industry = NA THEN [df[i] EXCEPT !.industry = "None"] ELSE df[i]]

\* The place of an industry in the ascending order of the group keys: the
\* order of the strings, an unknown industry after every string
\* (na_position='last').
IndustryRank(industry) ==
    CASE industry = "Auto" -> 1
      [] industry = "Bank" -> 2
      [] industry = "None" -> 3
      [] OTHER -> 4

\* x comes strictly before y in a descending sort with NaN last.
DescBefore(x, y) == x # NULL /\ (y = NULL \/ x > y)

\* Row a comes strictly before row b in the page's sort_values:
\* ["industry", "market_cap"], ascending=[True, False] in the daily viewer,
\* [group_by_col, "hits_30", "hits_7"], ascending=[True, False, False] in
\* the momentum pages.
RowBefore(page, a, b) ==
    \/ IndustryRank(a.industry) < IndustryRank(b.industry)
    \/ /\ a.industry = b.industry
       /\ IF page = "daily_viewer"
          THEN DescBefore(a.market_cap, b.market_cap)
          ELSE \/ DescBefore(a.hits_30, b.hits_30)
               \/ a.hits_30 = b.hits_30 /\ DescBefore(a.hits_7, b.hits_7)

RECURSIVE sort_values(_, _)
\* df.sort_values(...): a stable sort, each row placed after the rows
\* that do not come after it.
sort_values(page, df) ==
    IF df = <<>> THEN <<>>
    ELSE LET front == sort_values(page, SubSeq(df, 1, Len(df) - 1))
             last == df[Len(df)]
             k == Cardinality({i \in 1..Len(front) : ~RowBefore(page, last, front[i])})
         IN SubSeq(front, 1, k) \o <<last>> \o SubSeq(front, k + 1, Len(front))

\* .groupby(group_by_col), iterated: one group per key in ascending order
\* of the keys, the rows of a group in the order of the frame; a row whose
\* key is missing belongs to no group (dropna=True, the default).
groupby(df) ==
    LET keyed == SelectSeq(df, LAMBDA r : r.industry # NA)
        ranks == SortSet({IndustryRank(keyed[i].industry) : i \in 1..Len(keyed)})
    IN [g \in 1..Len(ranks) |->
          LET rows == SelectSeq(keyed, LAMBDA r : IndustryRank(r.industry) = ranks[g])
          IN [key |-> rows[1].industry, rows |-> rows]]

\* The groups a page displays for its filtered frame: daily_viewer and
\* momentum_summary fill the unknown industries with "None" first,
\* momentum_summary_updated does not.
GroupsOf(page, filtered_df) ==
    IF page = "momentum_summary_updated"
    THEN groupby(sort_values(page, filtered_df))
    ELSE groupby(sort_values(page, fillna(filtered_df)))

\* The grouped display of a page for the filtered frame it holds.  The
\* daily viewer ends before it when the frame is empty.
GroupedView ==
    /\ pc = "idle"
    /\ \E page \in GroupedPages :
        /\ page = "daily_viewer" => grouped.filtered_df # <<>>
        /\ grouped' = [page |-> page,
                       filtered_df |-> grouped.filtered_df,
                       groups |-> GroupsOf(page, grouped.filtered_df)]
    /\ seen' = NotRead
    /\ sumCall' = "none"
    /\ view' = NoView
    /\ UNCHANGED <<store, txn, pc, remaining, load_date, inserted_rows, call, ret,
                   today, cache, dates_cache, data_cache>>
    /\ UNCHANGED fileVars
    /\ UNCHANGED runVars
    /\ UNCHANGED topVars

\* ------------------------------------------------------------------------
\* Pipeline run (main, ScreenerDownloader, archive_file)
\* ------------------------------------------------------------------------

\* The name a browser gives a file it downloads, before the rename.
RawName == 0

\* What the screen lists whenever the model downloads it.
ScreenRows == <<[Name |-> "A", MarketCap |-> Num(100)]>>

\* The header of a downloaded file.
ScreenColumns == {"Name", "Market Capitalization"}

\* No stage of the run has been reached, nothing was logged.
NoRun ==
    [settings |-> "-", download |-> "-", ingest |-> "-", archive |-> "-",
     logged |-> FALSE]

\* The file of a directory with the given name (names are unique in a
\* directory).
FileNamed(dir, name) ==
    LET found == SelectSeq(dir, LAMBDA f : f.name = name) IN found[1]

\* Whether a directory holds a file made by the given download.
Holds(dir, id) == \E i \in 1..Len(dir) : dir[i].id = id

\* _trigger_download from the export on: `dir` lists the *.csv files of
\* the download directory in the order of their st_ctime, `arrived` says
\* whether a new file from the export was there when the directory was
\* looked at.  The newest file is renamed to screener_<today>.csv, taking
\* the place of a file of that name.
trigger_download(dir, arrived, day, id) ==
    LET listing == IF arrived THEN Append(dir, [name |-> RawName, id |-> id])
                   ELSE dir
        latest_file == listing[Len(listing)]
        dated_name == day
        others == SelectSeq(listing,
                            LAMBDA f : f # latest_file /\ f.name # dated_name)
    IN Append(others, [name |-> dated_name, id |-> latest_file.id])

\* shutil.move(src, dest_dir / src.name): the file leaves the download
\* directory and takes the place of a file of its name in the archive.
archive_file(src_dir, dest_dir, name) ==
    LET src == FileNamed(src_dir, name)
    IN [download_dir |-> SelectSeq(src_dir, LAMBDA f : f.name # name),
        archive_dir |-> Append(SelectSeq(dest_dir, LAMBDA f : f.name # name), src)]

\* main after a failed ingestion that goes on to the archive step.
AfterStageArchiving(st, raised) ==
    CASE st = "settings" ->
            IF raised THEN [stage |-> "idle", exit_status |-> 1, logged |-> FALSE]
            ELSE [stage |-> "download", exit_status |-> NULL, logged |-> FALSE]
      [] st = "download" ->
            IF raised THEN [stage |-> "idle", exit_status |-> 2, logged |-> FALSE]
            ELSE [stage |-> "ingest", exit_status |-> NULL, logged |-> FALSE]
      [] st = "ingest" ->
            [stage |-> "archive", exit_status |-> NULL, logged |-> FALSE]
      [] OTHER -> [stage |-> "idle", exit_status |-> 0, logged |-> TRUE]

\* main after a step: the except clauses of the first three steps call
\* sys.exit(1), sys.exit(2), sys.exit(3); the except clause of the archive
\* step logs a warning and falls through to the last line, which logs
\* "All steps completed successfully."; main returns and the process ends
\* with status 0.
AfterStage(st, raised) ==
    CASE st = "settings" ->
            IF raised THEN [stage |-> "idle", exit_status |-> 1, logged |-> FALSE]
            ELSE [stage |-> "download", exit_status |-> NULL, logged |-> FALSE]
      [] st = "download" ->
            IF raised THEN [stage |-> "idle", exit_status |-> 2, logged |-> FALSE]
            ELSE [stage |-> "ingest", exit_status |-> NULL, logged |-> FALSE]
      [] st = "ingest" ->
            IF raised THEN [stage |-> "idle", exit_status |-> 3, logged |-> FALSE]
            ELSE [stage |-> "archive", exit_status |-> NULL, logged |-> FALSE]
      [] OTHER -> [stage |-> "idle", exit_status |-> 0, logged |-> TRUE]

\* What a step of main does to the position of the run, its exit status
\* and the record of its steps.
StepOf(st, raised) ==
    LET after == AfterStage(st, raised)
    IN /\ stage' = after.stage
       /\ exit_status' = after.exit_status
       /\ run' = [IF st = "settings" THEN NoRun ELSE run
                     EXCEPT ![st] = IF raised THEN "failed" ELSE "ok",
                            !.logged = after.logged]

\* What a step of main leaves alone of the ingest calls made outside a run
\* and of the dashboard.
RunLeaves ==
    /\ seen' = NotRead
    /\ sumCall' = "none"
    /\ view' = NoView
    /\ grouped' = NoGroups
    /\ UNCHANGED <<txn, pc, remaining, load_date, today, cache, dates_cache,
                   data_cache>>
    /\ UNCHANGED fileVars
    /\ UNCHANGED topVars

\* A run of main begins: _load_settings(args.config), which reads
\* config.ini and creates the two directories, raises or returns.
LoadSettings ==
    /\ stage = "idle"
    /\ runs < MaxRuns
    /\ runs' = runs + 1
    /\ \E raised \in BOOLEAN : StepOf("settings", raised)
    /\ csv_file' = NULL
    /\ UNCHANGED <<store, inserted_rows, call, ret, download_dir, archive_dir,
                   ingested>>
    /\ RunLeaves

\* ScreenerDownloader.download(): the log-in or a wait of the browser
\* raises, or _trigger_download returns the dated file.  When the
\* directory holds no *.csv file and none arrives, the wait for one times
\* out and raises.
Download ==
    /\ stage = "download"
    /\ \/ /\ StepOf("download", TRUE)
          /\ UNCHANGED <<download_dir, csv_file>>
       \/ \E arrived \in BOOLEAN :
            /\ arrived \/ download_dir # <<>>
            /\ download_dir' = trigger_download(download_dir, arrived, today, runs)
            /\ csv_file' = today
            /\ StepOf("download", FALSE)
    /\ UNCHANGED <<store, inserted_rows, call, ret, archive_dir, ingested, runs>>
    /\ RunLeaves

\* HighsIngestor(settings, logger).ingest(csv_file): the whole call, which
\* commits the rows of the file under the date of its name or raises a
\* storage error and leaves the table as it was.
IngestStage ==
    /\ stage = "ingest"
    /\ LET ex == [columns |-> ScreenColumns, date |-> csv_file, rows |-> ScreenRows]
           end == Loop([store |-> store, txn |-> <<>>, inserted_rows |-> 0],
                       ex.rows, ex.date)
       IN /\ call' = CallOf(ex, store)
          /\ \/ /\ store' = Commit(end.store, end.txn)
                /\ inserted_rows' = end.inserted_rows
                /\ ret' = "returned"
                /\ ingested' = Append(ingested, FileNamed(download_dir, csv_file).id)
                /\ StepOf("ingest", FALSE)
             \/ /\ ret' = "raised"
                /\ UNCHANGED <<store, inserted_rows, ingested>>
                /\ StepOf("ingest", TRUE)
    /\ UNCHANGED <<download_dir, archive_dir, csv_file, runs>>
    /\ RunLeaves

\* archive_file(csv_file, settings.archive_dir, logger) and the end of
\* main: the file is moved, or the move raises and the file stays.
Archive ==
    /\ stage = "archive"
    /\ \/ LET moved == archive_file(download_dir, archive_dir, csv_file)
          IN /\ download_dir' = moved.download_dir
             /\ archive_dir' = moved.archive_dir
             /\ StepOf("archive", FALSE)
       \/ /\ UNCHANGED <<download_dir, archive_dir>>
          /\ StepOf("archive", TRUE)
    /\ UNCHANGED <<store, inserted_rows, call, ret, csv_file, ingested, runs>>
    /\ RunLeaves

\* ------------------------------------------------------------------------
\* Top performers (views/top_performers.py, views/top_performers_grouped.py)
\* ------------------------------------------------------------------------

\* The two pages.
TopPages == {"top_performers", "top_performers_grouped"}

\* The options of the radio "Choose Activity Metric"; a radio without an
\* index starts on its first option.
Metrics == {"hits_7", "hits_30", "hits_60"}
FirstMetric == "hits_7"

\* The sectors (industries) of the summary frames.
Sectors == {"Bank", "IT"}

\* The hit counts a row of a summary frame carries.
HitTriples ==
    { [hits_7 |-> NULL, hits_30 |-> 25, hits_60 |-> 50],
      [hits_7 |-> 5, hits_30 |-> 25, hits_60 |-> 25] }

\* The rows of the summary frames: an industry, possibly unknown, and the
\* three hit counts.
TopRows ==
    {[industry |-> ind, hits_7 |-> h.hits_7, hits_30 |-> h.hits_30,
      hits_60 |-> h.hits_60] : ind \in Sectors \cup {NA}, h \in HitTriples}

\* The summary frames get_momentum_summary hands the page.
TopFrames(rows) == SeqsUpTo(TopRows, rows)

RECURSIVE SumOf(_, _, _)
\* df.groupby("industry")[metric_choice].sum() for one industry: the sum of
\* the column over the rows of the industry, a NaN counting as nothing.
SumOf(df, sector, metric) ==
    IF df = <<>> THEN 0
    ELSE LET r == Head(df)
             h == IF r.industry = sector /\ r[metric] # NULL THEN r[metric] ELSE 0
         IN h + SumOf(Tail(df), sector, metric)

\* sector_hits: one row per industry of the frame, rows with an unknown
\* industry left out by groupby, with the industry's total_hits.
sector_hits(df, metric) ==
    [s \in {df[i].industry : i \in 1..Len(df)} \ {NA} |-> SumOf(df, s, metric)]

\* The sectors selected automatically: total_hits >= 50.
HotSectors(df, metric) ==
    LET hits == sector_hits(df, metric)
    IN {s \in DOMAIN hits : hits[s] >= 50}

\* A click that can only add its sector to the selection.
AddOnly(selected_sectors, sector) == selected_sectors \cup {sector}

\* The body of the test on a sector's button: the sector is removed when
\* it is selected and added when it is not.
Toggle(selected_sectors, sector) ==
    IF sector \in selected_sectors
    THEN selected_sectors \ {sector}
    ELSE selected_sectors \cup {sector}

\* What the user did to cause the rerun: opened the page ("open"), chose
\* another metric, clicked one of the page's buttons, or something that
\* changes no widget of the model ("other": the download button, a
\* resize).  'Select All' exists on the grouped page only; the sector
\* buttons are those of sector_hits.
Interactions(page, df, radio) ==
    {[kind |-> "other", arg |-> "-"], [kind |-> "clear", arg |-> "-"]}
    \cup {[kind |-> "metric", arg |-> m] : m \in Metrics \ {radio}}
    \cup {[kind |-> "sector", arg |-> s] : s \in DOMAIN sector_hits(df, radio)}
    \cup (IF page = "top_performers_grouped"
          THEN {[kind |-> "all", arg |-> "-"]} ELSE {})

\* No session: st.session_state is empty and the radio is on its default.
NoSession ==
    [live |-> FALSE, radio |-> FirstMetric, has_selected |-> FALSE,
     selected_sectors |-> {}, metric_used |-> "none"]

\* The last step was no rerun of the page.
NoRerun ==
    [did |-> [kind |-> "none", arg |-> "-"], metric_choice |-> "none",
     before |-> NoSession,
     last |-> [kind |-> "none", arg |-> "-"], before_last |-> NoSession]

\* main() of the page from the radio to the sector buttons, on the state
\* `s` of the session after the interaction `did`.
TopMain(page, df, s, did) ==
    LET metric_choice == IF did.kind = "metric" THEN did.arg ELSE s.radio
        reset == ~s.has_selected \/ s.metric_used # metric_choice
        initial == IF reset THEN HotSectors(df, metric_choice)
                   ELSE s.selected_sectors
        cleared == IF did.kind = "clear" THEN {} ELSE initial
        all == IF page = "top_performers_grouped" /\ did.kind = "all"
               THEN DOMAIN sector_hits(df, metric_choice) ELSE cleared
        clicked == IF did.kind = "sector" THEN Toggle(all, did.arg) ELSE all
    IN [live |-> TRUE,
        radio |-> metric_choice,
        has_selected |-> TRUE,
        selected_sectors |-> clicked,
        metric_used |-> IF reset THEN metric_choice ELSE s.metric_used]

\* One run of main(): the first of a session, or the rerun Streamlit makes
\* after an interaction.
TopRerun ==
    /\ \E did \in IF session.live
                  THEN Interactions(top.page, top.df, session.radio)
                  ELSE {[kind |-> "open", arg |-> "-"]} :
        /\ session' = TopMain(top.page, top.df, session, did)
        /\ rerun' = [did |-> did,
                     metric_choice |-> session'.radio,
                     before |-> session,
                     last |-> rerun.did,
                     before_last |-> rerun.before]
    /\ UNCHANGED top
    /\ seen' = NotRead
    /\ sumCall' = "none"
    /\ view' = NoView
    /\ grouped' = NoGroups
    /\ UNCHANGED <<store, txn, pc, remaining, load_date, inserted_rows, call, ret,
                   today, cache, dates_cache, data_cache>>
    /\ UNCHANGED fileVars
    /\ UNCHANGED runVars

\* The browser tab is closed or reloaded: the next run starts a session
\* with an empty st.session_state.
EndSession ==
    /\ session.live
    /\ session' = NoSession
    /\ rerun' = NoRerun
    /\ UNCHANGED top
    /\ seen' = NotRead
    /\ sumCall' = "none"
    /\ view' = NoView
    /\ grouped' = NoGroups
    /\ UNCHANGED <<store, txn, pc, remaining, load_date, inserted_rows, call, ret,
                   today, cache, dates_cache, data_cache>>
    /\ UNCHANGED fileVars
    /\ UNCHANGED runVars

\* ------------------------------------------------------------------------
\* Specification
\* ------------------------------------------------------------------------

InitProgram ==
    /\ store = <<>>
    /\ txn = <<>>
    /\ pc = "idle"
    /\ remaining = 0
    /\ load_date = NULL
    /\ call = [complete |-> FALSE, valid |-> 0, start |-> 0]
    /\ inserted_rows = 0
    /\ ret = "none"
    /\ seen = NotRead
    /\ today = 31
    /\ cache = NoCache
    /\ sumCall = "none"
    /\ dates_cache = NoCache
    /\ data_cache = NoData
    /\ view = NoView

\* No file is kept for repeated ingest calls.
InitNoFile == csv_path = NoFile /\ ingests = 0

\* No run of main has begun, both directories are empty.
InitRuns ==
    /\ stage = "idle"
    /\ exit_status = NULL
    /\ run = NoRun
    /\ runs = 0
    /\ download_dir = <<>>
    /\ archive_dir = <<>>
    /\ csv_file = NULL
    /\ ingested = <<>>

\* No session of a top-performers page exists.
InitNoSession == session = NoSession /\ rerun = NoRerun

\* No top-performers page is in use.
InitNoTop == top = [page |-> "none", df |-> <<>>] /\ InitNoSession

\* The table is empty, no call has been made, the caches are empty.
Init == InitProgram /\ grouped = NoGroups /\ InitNoFile /\ InitRuns /\ InitNoTop

\* The same, with a filtered frame at hand for the grouped displays.
InitGrouping ==
    /\ InitProgram
    /\ grouped \in {[NoGroups EXCEPT !.filtered_df = f] : f \in FilteredFrames(MaxFrameRows)}
    /\ InitNoFile
    /\ InitRuns
    /\ InitNoTop

\* The same as Init, with an extract file at hand that is never archived.
InitReingest ==
    /\ InitProgram
    /\ grouped = NoGroups
    /\ csv_path \in Extracts
    /\ ingests = 0
    /\ InitRuns
    /\ InitNoTop

\* The same as Init, with one of the top-performers pages in use on a
\* summary frame.
InitTop ==
    /\ InitProgram
    /\ grouped = NoGroups
    /\ InitNoFile
    /\ InitRuns
    /\ top \in [page : TopPages, df : TopFrames(MaxTopRows)]
    /\ InitNoSession

\* The ingest calls step by step, a storage error possible at any step,
\* and the dashboard's queries between the steps.
Next ==
    \/ IngestRejected
    \/ IngestBegin
    \/ IngestRow
    \/ IngestCommit
    \/ IngestFail
    \/ Read

Spec == Init /\ [][Next]_vars

\* Ingest calls and the calls of the summary over the days.
NextSummary ==
    \/ Ingest
    \/ Summarize
    \/ Restart
    \/ Tick

SpecSummary == Init /\ [][NextSummary]_vars

\* Ingest calls and the runs of the daily viewer.
NextViewer ==
    \/ Ingest
    \/ DailyViewer
    \/ Restart

SpecViewer == Init /\ [][NextViewer]_vars

\* Ingest calls and the runs of the momentum summary page over the days.
NextMomentum ==
    \/ Ingest
    \/ MomentumView
    \/ Restart
    \/ Tick

SpecMomentum == Init /\ [][NextMomentum]_vars

\* The grouped displays on every filtered frame.
NextGrouping == GroupedView

SpecGrouping == InitGrouping /\ [][NextGrouping]_vars

\* Ingest calls on one and the same extract file.
NextReingest == IngestFile

SpecReingest == InitReingest /\ [][NextReingest]_vars

\* The runs of main, step by step, over the days.
NextPipeline ==
    \/ LoadSettings
    \/ Download
    \/ IngestStage
    \/ Archive
    \/ Tick

SpecPipeline == Init /\ [][NextPipeline]_vars

\* The runs of a top-performers page in its sessions.
NextTop ==
    \/ TopRerun
    \/ EndSession

SpecTop == InitTop /\ [][NextTop]_vars

\* ------------------------------------------------------------------------
\* Properties of the ingestion
\* ------------------------------------------------------------------------

\* The company names that have a row in the table.
StoredNames(tbl) == {tbl[i].name : i \in 1..Len(tbl)}

\* The least date among the rows of a company.
MinDateOf(tbl, name) == SqlMin(DateColumn(RowsOf(tbl, name)))

\* The rows came in non-decreasing order of their dates.
DateOrdered(rows) ==
    \A i, j \in 1..Len(rows) : i < j => rows[i].date <= rows[j].date

\* s is a prefix of t.
IsPrefix(s, t) == Len(s) <= Len(t) /\ SubSeq(t, 1, Len(s)) = s

\* C1 as stated: after any sequence of ingest calls, in any order of dates,
\* every stored row of a company carries the same first_seen_date, the
\* minimum date among the stored rows of that company.
C1_FirstSeenDateIsMinDate ==
    \A i \in 1..Len(store) :
        store[i].first_seen_date = MinDateOf(store, store[i].name)

\* C1 amended: when the rows of a company were ingested in non-decreasing
\* order of observation date, every stored row of that company carries the
\* same first_seen_date, the minimum date among the stored rows of that
\* company.
C1_FirstSeenDateIsMinDateInOrder ==
    \A n \in StoredNames(store) :
        LET rows == RowsOf(store, n)
        IN DateOrdered(rows) =>
             \A i \in 1..Len(rows) : rows[i].first_seen_date = MinDateOf(store, n)

\* A company ingested on two different dates, the earlier one first.
C1_Witness ==
    \E n \in StoredNames(store) :
        LET rows == RowsOf(store, n)
        IN /\ Len(rows) >= 2
           /\ DateOrdered(rows)
           /\ rows[1].date < rows[Len(rows)].date

\* C2: every stored row of a company carries as first_seen_market_cap the
\* market cap of a row of that company of minimum date.  Stated for the
\* companies whose rows were ingested in date order and all have a known
\* market cap, where the first_seen_date is right (C1) and no row lacks a
\* market cap (C7), so that a violation belongs to the market cap alone.
C2_FirstCapIsCapOfMinDate ==
    \A n \in StoredNames(store) :
        LET rows == RowsOf(store, n)
        IN (DateOrdered(rows) /\ \A k \in 1..Len(rows) : rows[k].market_cap # NULL) =>
             \A i \in 1..Len(rows) :
                \E m \in 1..Len(rows) :
                    /\ rows[m].date = MinDateOf(store, n)
                    /\ rows[i].first_market_cap = rows[m].market_cap

\* C3: ingestion only appends: every step leaves the rows the table held
\* in place and unchanged.
C3_AppendOnly == [][IsPrefix(store, store')]_vars

\* An ingest call has added rows to a table that held rows before it.
C3_Witness ==
    /\ pc = "idle"
    /\ ret = "returned"
    /\ call.start > 0
    /\ Len(store) > call.start

\* C4: an ingest call on an extract with both required columns and N valid
\* rows adds exactly N rows to the table.
C4_CountGrowsByValid ==
    (pc = "idle" /\ ret = "returned" /\ call.complete) =>
        Len(store) = call.start + call.valid

\* C5: a step that ends with the last ingest call having been given an
\* extract without both required columns leaves the table as it was and
\* no insertion under way; the rejecting call is such a step.
C5_SchemaMismatchInsertsNothing ==
    [][(~call'.complete) => (store' = store /\ txn' = <<>> /\ pc' = "idle")]_vars

\* An extract with valid rows and a required column missing was given to
\* ingest when the table held rows.
C5_Witness ==
    /\ ret = "returned"
    /\ ~call.complete
    /\ call.valid > 0
    /\ call.start > 0
    /\ Len(store) = call.start

\* C6: an ingest call on an extract that lacks a required column ends in a
\* way its caller can tell from a successful ingestion: it raises.
C6_SchemaMismatchReported ==
    (pc = "idle" /\ ret # "none" /\ ~call.complete) => ret = "raised"

\* C7: a row whose market cap is missing is skipped: the table never holds
\* a row with an unknown market cap.
C7_MissingCapSkipped ==
    \A i \in 1..Len(store) : store[i].market_cap # NULL

\* C8: the rows of an ingest call become visible together or not at all:
\* the committed table does not change while the call runs, a query made
\* while it runs returns the rows the table held before it, and after a
\* call that raised the table holds the rows it held before it.
C8_AllOrNothing ==
    /\ pc = "rows" => Len(store) = call.start
    /\ seen.during => seen.rows = SubSeq(store, 1, call.start)
    /\ (pc = "idle" /\ ret = "raised") => Len(store) = call.start

\* A query made while an ingest call has inserted rows and not committed.
C8_Witness ==
    /\ seen.during
    /\ Len(txn) > 0
    /\ call.start > 0

\* An ingest call has raised after it inserted rows.
C8_WitnessRaised ==
    /\ pc = "idle"
    /\ ret = "raised"
    /\ inserted_rows > 0

\* ------------------------------------------------------------------------
\* Properties of the momentum summary
\* ------------------------------------------------------------------------

\* The number of rows of a company dated within [day - days, day].
HitsInWindow(tbl, day, days, name) ==
    Len(SelectSeq(tbl, LAMBDA r : r.name = name /\ day - days <= r.date /\ r.date <= day))

\* The summary row carries the fields of the stored row.
CarriesRow(s, r) ==
    /\ s.name = r.name
    /\ s.date = r.date
    /\ s.market_cap = r.market_cap
    /\ s.first_market_cap = r.first_market_cap
    /\ s.first_seen_date = r.first_seen_date

\* C9: the summary computed from the table has exactly one row per company
\* of the table, and that row carries the fields of a stored row of the
\* company with its maximum date.
C9_OneRowPerCompany ==
    sumCall = "miss" =>
        LET df == cache.df
        IN /\ \A n \in StoredNames(store) :
                Cardinality({i \in 1..Len(df) : df[i].name = n}) = 1
           /\ \A i \in 1..Len(df) :
                \E k \in 1..Len(store) :
                    /\ CarriesRow(df[i], store[k])
                    /\ store[k].date = max_date(store, store[k].name)

\* C10: hits_N of the summary computed today is the number of rows of the
\* company dated within [today - N, today], for N in {7, 30, 60}; a row
\* dated after today is not counted.  Stated where the summary has a count
\* (a company without a row in the window is C12's case).
C10_HitsCountWindow ==
    sumCall = "miss" =>
        LET df == cache.df
        IN \A i \in 1..Len(df) :
            /\ df[i].hits_7 # NULL =>
                 df[i].hits_7 = HitsInWindow(store, today, 7, df[i].name)
            /\ df[i].hits_30 # NULL =>
                 df[i].hits_30 = HitsInWindow(store, today, 30, df[i].name)
            /\ df[i].hits_60 # NULL =>
                 df[i].hits_60 = HitsInWindow(store, today, 60, df[i].name)

\* The company has no row dated after the day.
NoRowAfter(tbl, day, name) ==
    \A k \in 1..Len(tbl) : tbl[k].name = name => tbl[k].date <= day

\* The count a summary shows, a missing count read as no row counted.
CountOf(h) == IF h = NULL THEN 0 ELSE h

\* The company has a row dated exactly `days` days before the day.
HasRowDated(tbl, name, d) ==
    \E k \in 1..Len(tbl) : tbl[k].name = name /\ tbl[k].date = d

\* C11: the lower boundary of the window is inclusive: in the summary
\* computed today, for a company without a row dated after today, hits_N
\* counts the rows dated today - N or later and no row dated today - N - 1
\* or earlier, for N in {7, 30, 60}.
C11_LowerBoundaryInclusive ==
    sumCall = "miss" =>
        LET df == cache.df
        IN \A i \in 1..Len(df) :
            NoRowAfter(store, today, df[i].name) =>
                /\ CountOf(df[i].hits_7) = HitsInWindow(store, today, 7, df[i].name)
                /\ CountOf(df[i].hits_30) = HitsInWindow(store, today, 30, df[i].name)
                /\ CountOf(df[i].hits_60) = HitsInWindow(store, today, 60, df[i].name)

\* A summary computed on a day that is exactly N days after the date of a
\* row it counts in hits_N.
C11_Witness ==
    /\ sumCall = "miss"
    /\ \E i \in 1..Len(cache.df) :
        LET r == cache.df[i]
        IN /\ NoRowAfter(store, today, r.name)
           /\ \/ HasRowDated(store, r.name, today - 7) /\ r.hits_7 >= 1
              \/ HasRowDated(store, r.name, today - 30) /\ r.hits_30 >= 1
              \/ HasRowDated(store, r.name, today - 60) /\ r.hits_60 >= 1

\* A summary computed on a day that is N + 1 days after the date of the
\* only row of a company: hits_N does not count it.
C11_WitnessExcluded ==
    /\ sumCall = "miss"
    /\ \E i \in 1..Len(cache.df) :
        LET r == cache.df[i]
        IN /\ Len(RowsOf(store, r.name)) = 1
           /\ \/ HasRowDated(store, r.name, today - 8) /\ CountOf(r.hits_7) = 0
              \/ HasRowDated(store, r.name, today - 31) /\ CountOf(r.hits_30) = 0
              \/ HasRowDated(store, r.name, today - 61) /\ CountOf(r.hits_60) = 0

\* C12: in the summary computed today, a company with stored rows and none
\* in the window has hits_N = 0, a number, and a company whose single row
\* is in the window has hits_N = 1.
C12_NoHitIsZero ==
    sumCall = "miss" =>
        LET df == cache.df
        IN \A i \in 1..Len(df) :
            LET n == df[i].name
                single == Len(RowsOf(store, n)) = 1
            IN /\ HitsInWindow(store, today, 7, n) = 0 => df[i].hits_7 = 0
               /\ HitsInWindow(store, today, 30, n) = 0 => df[i].hits_30 = 0
               /\ HitsInWindow(store, today, 60, n) = 0 => df[i].hits_60 = 0
               /\ (single /\ HitsInWindow(store, today, 7, n) = 1) => df[i].hits_7 = 1
               /\ (single /\ HitsInWindow(store, today, 30, n) = 1) => df[i].hits_30 = 1
               /\ (single /\ HitsInWindow(store, today, 60, n) = 1) => df[i].hits_60 = 1

\* The gain is the number p percent.
GainIs(g, p) == g.kind = "num" /\ g.num = p * g.den

\* The company was ingested on two dates, in date order, with the market
\* caps c1 and then c2.
TwoSnapshots(tbl, name, c1, c2) ==
    LET rows == RowsOf(tbl, name)
    IN /\ Len(rows) = 2
       /\ rows[1].date < rows[2].date
       /\ rows[1].market_cap = c1
       /\ rows[2].market_cap = c2

\* C13: in the summary computed from the table, a row with a known market
\* cap m and a known, non-zero first market cap f has the gain
\* 100 * (m - f) / f; a company ingested on two dates in date order with
\* market caps 100 and then 150 has first market cap 100 on both stored
\* rows and the gain 50.
C13_GainSinceFirst ==
    sumCall = "miss" =>
        LET df == cache.df
        IN /\ \A i \in 1..Len(df) :
                LET m == df[i].market_cap
                    f == df[i].first_market_cap
                    g == df[i].gain_mc
                IN (m # NULL /\ f # NULL /\ f # 0) =>
                     /\ g.kind = "num"
                     /\ g.num * f = 100 * (m - f) * g.den
           /\ \A n \in StoredNames(store) :
                TwoSnapshots(store, n, 100, 150) =>
                    /\ \A k \in 1..Len(store) :
                         store[k].name = n => store[k].first_market_cap = 100
                    /\ \A i \in 1..Len(df) :
                         df[i].name = n => GainIs(df[i].gain_mc, 50)

\* The summary of a company ingested with market cap 100 and later, on a
\* later date, with 150.
C13_Witness ==
    /\ sumCall = "miss"
    /\ \E i \in 1..Len(cache.df) :
        /\ TwoSnapshots(store, cache.df[i].name, 100, 150)
        /\ GainIs(cache.df[i].gain_mc, 50)

\* C14: in the summary computed from the table, a row whose first market
\* cap is zero or unknown has an unknown gain: no number and no infinity.
C14_GainUnknownOnZeroFirst ==
    sumCall = "miss" =>
        \A i \in 1..Len(cache.df) :
            cache.df[i].first_market_cap \in {0, NULL} =>
                cache.df[i].gain_mc.kind = "nan"

\* All stored rows of the company carry one date, and a known, non-zero
\* market cap.
ObservedOnOneDate(tbl, name) ==
    LET rows == RowsOf(tbl, name)
    IN /\ \A j, k \in 1..Len(rows) : rows[j].date = rows[k].date
       /\ \A k \in 1..Len(rows) : rows[k].market_cap # NULL /\ rows[k].market_cap # 0

\* C15: in the summary computed from the table, a company whose stored
\* rows all carry one date has the gain 0 on every row the summary gives
\* it.  Stated for the companies whose rows all have a known, non-zero
\* market cap, so that a violation belongs to the repeated date alone.
C15_GainZeroOnOneDate ==
    sumCall = "miss" =>
        \A i \in 1..Len(cache.df) :
            ObservedOnOneDate(store, cache.df[i].name) =>
                GainIs(cache.df[i].gain_mc, 0)

\* C16: a get_momentum_summary call returns the summary of the table as
\* it is at the call, rows of every completed ingest call included (on
\* whatever day it was computed: that is C17).
C16_SummaryIncludesIngested ==
    sumCall # "none" =>
        \E d \in Todays : cache.df = get_momentum_summary(store, d)

\* C17: a get_momentum_summary call returns a summary computed with
\* today's date (from whatever rows the table held when it was computed:
\* that is C16).
C17_SummaryOfToday ==
    sumCall # "none" =>
        \E k \in 0..Len(store) :
            cache.df = get_momentum_summary(SubSeq(store, 1, k), today)

\* ------------------------------------------------------------------------
\* Properties of the daily viewer
\* ------------------------------------------------------------------------

\* The rows of a company dated within [start_date, end_date], in the order
\* of the table.
RowsInRange(tbl, name, start_date, end_date) ==
    SelectSeq(tbl, LAMBDA r : /\ r.name = name
                              /\ start_date <= r.date
                              /\ r.date <= end_date)

\* The first row of a company met when the dates of the range are visited
\* in ascending order: the first row, in the order of the table, of the
\* company's earliest date in the range.
FirstMet(tbl, name, start_date, end_date) ==
    LET rows == RowsInRange(tbl, name, start_date, end_date)
        earliest == SqlMin(DateColumn(rows))
    IN Head(SelectSeq(rows, LAMBDA r : r.date = earliest))

C18_WitnessAllDates ==
    /\ view.page = "daily"
    /\ view.fresh
    /\ view.mode = "All Dates"
    /\ \E n \in StoredNames(store) :
        LET rows == RowsOf(store, n)
        IN /\ Len(rows) = 2
           /\ rows[1].date = rows[2].date
           /\ rows[1] # rows[2]
           /\ \E i \in 1..Len(view.rows) : view.rows[i] = rows[1]

\* A run of the daily viewer shows rows read before an ingest call added
\* rows in its range.
C18_WitnessStale ==
    /\ view.page = "daily"
    /\ ~view.fresh
    /\ view.mode = "All Dates"
    /\ \E n \in StoredNames(store) :
        \A i \in 1..Len(view.rows) : view.rows[i].name # n

\* ------------------------------------------------------------------------
\* Properties of the momentum summary page
\* ------------------------------------------------------------------------

\* C19: a run of the page that computed the summary retains exactly the
\* rows whose hits_30 is at least min_hits and whose gain is at least
\* min_gain, a company without a row counted in the last 30 days having
\* hits_30 = 0: with min_hits = 0 it is retained when its gain meets
\* min_gain.
C19_ThresholdFilterRetains ==
    (view.page = "momentum" /\ view.fresh) =>
        view.rows = SelectSeq(cache.df,
                              LAMBDA r : /\ CountOf(r.hits_30) >= view.min_hits
                                         /\ GainAtLeast(r.gain_mc, view.min_gain))

\* ------------------------------------------------------------------------
\* Properties of the grouped displays
\* ------------------------------------------------------------------------

\* The groups of the display that hold a row of the given name.
GroupsHolding(groups, name) ==
    {g \in 1..Len(groups) :
        \E i \in 1..Len(groups[g].rows) : groups[g].rows[i].name = name}

\* The numeric sort field of a page.
SortField(page, r) == IF page = "daily_viewer" THEN r.market_cap ELSE r.hits_30

\* C20: the grouped display of a page partitions its filtered frame by
\* industry: every row of the frame, one with an unknown industry
\* included, is in exactly one group; the rows of a group share the
\* group's industry; the groups come in ascending order of their keys and
\* the rows of a group in descending order of the page's sort field.
C20_GroupsPartitionFrame ==
    grouped.page # "none" =>
        LET df == grouped.filtered_df
            groups == grouped.groups
        IN /\ \A i \in 1..Len(df) :
                Cardinality(GroupsHolding(groups, df[i].name)) = 1
           /\ \A g \in 1..Len(groups) :
                \A i \in 1..Len(groups[g].rows) :
                    \E j \in 1..Len(df) :
                        /\ df[j].name = groups[g].rows[i].name
                        /\ IndustryRank(groups[g].key) =
                             IndustryRank(IF df[j].industry = NA THEN "None"
                                          ELSE df[j].industry)
           /\ \A g, h \in 1..Len(groups) :
                g < h => IndustryRank(groups[g].key) < IndustryRank(groups[h].key)
           /\ \A g \in 1..Len(groups) :
                \A i, j \in 1..Len(groups[g].rows) :
                    i < j => SortField(grouped.page, groups[g].rows[i])
                               >= SortField(grouped.page, groups[g].rows[j])

\* C20 on the two pages the dashboard serves (daily_viewer and
\* momentum_summary), which fill an unknown industry with "None".
C20_ServedPagesPartition ==
    grouped.page \in {"daily_viewer", "momentum_summary"} => C20_GroupsPartitionFrame

\* ------------------------------------------------------------------------
\* Properties of repeated ingestion
\* ------------------------------------------------------------------------

\* The rows of a table that carry the given date.
RowsDated(tbl, d) == SelectSeq(tbl, LAMBDA r : r.date = d)

\* C21: ingesting the same extract with N valid rows twice for the same
\* observation date leaves 2N rows for that date in the store: the second
\* call adds N rows again and is neither rejected nor deduplicated.  The
\* store was empty before the first call; the extract has both required
\* columns.
C21_TwiceLeavesTwiceTheValidRows ==
    (ingests = 2 /\ HasBothColumns(csv_path.columns))
        => Len(RowsDated(store, csv_path.date)) = 2 * CountValid(csv_path.rows)

\* The part of C21 that is about repetition alone: the second call on the
\* same file inserts as many rows as the first one did.
C21_SecondCallAddsAgain ==
    (ingests = 2 /\ HasBothColumns(csv_path.columns))
        => /\ Len(RowsDated(store, csv_path.date)) = 2 * inserted_rows
           /\ inserted_rows >= CountValid(csv_path.rows)

\* An extract of two valid rows was ingested twice and the table holds
\* four rows of its date.
C21_WitnessDuplicated ==
    /\ ingests = 2
    /\ CountValid(csv_path.rows) = 2
    /\ Len(RowsDated(store, csv_path.date)) = 4

\* The valid rows of an extract, in the extract's order.
ValidRows(rows) == SelectSeq(rows, ValidRow)

\* The rows of a table that carry a market cap.
WithCap(tbl) == SelectSeq(tbl, LAMBDA r : r.market_cap # NULL)

\* The table holds the valid rows of the extract, in the extract's order,
\* under the extract's date.
ValidRowsStored(tbl, ex) ==
    LET valid == ValidRows(ex.rows)
        stored == WithCap(tbl)
    IN /\ Len(stored) = Len(valid)
       /\ \A i \in 1..Len(valid) :
            /\ stored[i].name = valid[i].Name
            /\ stored[i].market_cap = valid[i].MarketCap.v
            /\ stored[i].date = ex.date

\* C24: the required columns are matched after trimming whitespace from the
\* header names: an extract whose name and market-capitalization headers
\* carry a leading or a trailing space is accepted and its valid rows are
\* inserted, while a header that differs in letter case is not matched and
\* nothing is inserted.
C24_HeaderTrimmedCaseKept ==
    ingests = 1 =>
        /\ csv_path.columns = {" Name", "Market Capitalization "}
              => ValidRowsStored(store, csv_path)
        /\ csv_path.columns = {"name", "Market Capitalization"}
              => store = <<>> /\ inserted_rows = 0

\* An extract whose headers carry spaces was ingested and a valid row of it
\* is in the table.
C24_Witness ==
    /\ ingests = 1
    /\ csv_path.columns = {" Name", "Market Capitalization "}
    /\ CountValid(csv_path.rows) >= 1
    /\ WithCap(store) # <<>>

\* An extract with a valid row under the header "name" was handed to ingest
\* and nothing was inserted.
C24_WitnessCase ==
    /\ ingests = 1
    /\ csv_path.columns = {"name", "Market Capitalization"}
    /\ CountValid(csv_path.rows) >= 1
    /\ store = <<>>

\* The rows the claim C25 is about: valid ones, and ones with a missing
\* name or a market cap that does not parse.
\* A row the loop cannot ingest: no name, or a market cap that is text.
Unusable(row) == row.Name = NoName \/ row.MarketCap.kind = "text"

ValidOrSkippable(rows) ==
    \A i \in 1..Len(rows) : ValidRow(rows[i]) \/ Unusable(rows[i])

C27_FirstSeenNotAfterDate ==
    \A i \in 1..Len(store) : store[i].first_seen_date <= store[i].date

\* ------------------------------------------------------------------------
\* Properties of the hit counts and of the threshold filter
\* ------------------------------------------------------------------------

\* C28: for every company in every summarize result in which hits_7,
\* hits_30 and hits_60 are all known, hits_7 <= hits_30 <= hits_60; and
\* whenever hits_7 is known, hits_30 and hits_60 are known too.  The
\* result is the frame st.cache_data keeps and returns.
C28_HitsNested ==
    cache.present =>
        \A i \in 1..Len(cache.df) :
            LET r == cache.df[i]
            IN /\ (r.hits_7 # NULL /\ r.hits_30 # NULL /\ r.hits_60 # NULL)
                    => (r.hits_7 <= r.hits_30 /\ r.hits_30 <= r.hits_60)
               /\ r.hits_7 # NULL => (r.hits_30 # NULL /\ r.hits_60 # NULL)

\* A summary just computed holds a company with one row in the 7-day
\* window and two rows in the 60-day window.
C28_Witness ==
    /\ sumCall = "miss"
    /\ \E i \in 1..Len(cache.df) :
        /\ cache.df[i].hits_7 = 1
        /\ cache.df[i].hits_30 = 1
        /\ cache.df[i].hits_60 = 2

\* The company names of the rows of a frame.
NamesIn(df) == {df[i].name : i \in 1..Len(df)}

\* The companies with a stored row in the last 30 days: a row dated from
\* day - 30 to day.
RecentCompanies(tbl, day) ==
    {n \in StoredNames(tbl) :
        \E i \in 1..Len(tbl) :
            tbl[i].name = n /\ tbl[i].date >= day - 30 /\ tbl[i].date <= day}

\* C29: the threshold filter of the momentum page never retains a company
\* whose hits_30 or whose percent gain is unknown, whatever min_hits >= 0
\* and min_gain >= 0 are, so the number of companies shown is at most the
\* number of companies with a row in the last 30 days.  Stated of the runs
\* that computed the summary on the day of the run.
C29_ShownAtMostRecentCompanies ==
    (view.page = "momentum" /\ view.fresh) =>
        /\ \A i \in 1..Len(view.rows) :
            /\ view.rows[i].hits_30 # NULL
            /\ view.rows[i].gain_mc.kind # "nan"
        /\ Cardinality(NamesIn(view.rows))
              <= Cardinality(RecentCompanies(store, today))

\* The first half of C29, of every run of the page, one served from the
\* cache included: no row with an unknown hits_30 or an unknown gain is
\* retained.
C29_UnknownNeverRetained ==
    view.page = "momentum" =>
        \A i \in 1..Len(view.rows) :
            /\ view.rows[i].hits_30 # NULL
            /\ view.rows[i].gain_mc.kind # "nan"

\* The second half of C29 with the window the queries use, which has no
\* upper end: every company shown has a row dated day - 30 or later.
C29_ShownWereCounted ==
    (view.page = "momentum" /\ view.fresh) =>
        \A n \in NamesIn(view.rows) :
            \E i \in 1..Len(store) :
                store[i].name = n /\ store[i].date >= today - 30

\* ------------------------------------------------------------------------
\* Properties of the pipeline runs
\* ------------------------------------------------------------------------

\* The steps of main.
Steps == {"settings", "download", "ingest", "archive"}

\* A run of main has ended.
RunEnded == stage = "idle" /\ runs > 0

\* C22: a run of main exits with a non-zero status if any of its steps
\* (configuration loading, download, ingestion, archiving) fails; a run ends
\* with status 0 and the message 'All steps completed successfully' only
\* when every step succeeded.
C22_NonZeroOnAnyFailure ==
    RunEnded =>
        /\ (\E s \in Steps : run[s] = "failed") => (exit_status # 0 /\ ~run.logged)
        /\ (exit_status = 0 \/ run.logged) => \A s \in Steps : run[s] = "ok"

\* C23: across any sequence of pipeline runs the content of one downloaded
\* extract file is ingested at most once: no download is committed by the
\* ingest calls of two runs.
C23_IngestedAtMostOnce ==
    \A i, j \in 1..Len(ingested) : ingested[i] = ingested[j] => i = j

\* C26: in every run the steps come in the order load settings, download,
\* ingest, archive, and a step runs only if every earlier one completed
\* without raising: a settings failure exits with status 1 before any
\* download, a download failure with 2 before any ingestion, an ingestion
\* failure with 3, nothing committed and the extract file left in the
\* download directory, not archived.
C26_StepsInOrder ==
    /\ run.download # "-" => run.settings = "ok"
    /\ run.ingest # "-" => run.download = "ok"
    /\ run.archive # "-" => run.ingest = "ok"
    /\ (RunEnded /\ run.settings = "failed")
          => (exit_status = 1 /\ run.download = "-")
    /\ (RunEnded /\ run.download = "failed")
          => (exit_status = 2 /\ run.ingest = "-")
    /\ (RunEnded /\ run.ingest = "failed")
          => /\ exit_status = 3
             /\ run.archive = "-"
             /\ Len(store) = call.start
             /\ \E i \in 1..Len(download_dir) :
                  /\ download_dir[i].name = csv_file
                  /\ ~Holds(archive_dir, download_dir[i].id)

\* A run ended in a failed ingestion after an earlier run had archived its
\* file: status 3, the new file still in the download directory.
C26_Witness ==
    /\ RunEnded
    /\ run.ingest = "failed"
    /\ exit_status = 3
    /\ archive_dir # <<>>
    /\ \E i \in 1..Len(download_dir) : download_dir[i].name = csv_file

\* ------------------------------------------------------------------------
\* Properties of the top-performers pages
\* ------------------------------------------------------------------------

\* The last step was a run of the page.
Reran == rerun.did.kind # "none"

\* The run started without a selection, or with a metric other than the
\* one of the run before it.
ResetDue ==
    ~rerun.before.has_selected \/ rerun.before.radio # rerun.metric_choice

\* The selection with the membership of exactly one sector changed.
Flipped(selected_sectors, sector) ==
    (selected_sectors \ {sector}) \cup ({sector} \ selected_sectors)

\* What C30 says of the reset, of a click on a sector's button and of two
\* clicks in a row on the same button.
SelectionResetAndClicks ==
    /\ ResetDue => session.selected_sectors = HotSectors(top.df, rerun.metric_choice)
    /\ (~ResetDue /\ rerun.did.kind = "sector")
          => session.selected_sectors
                = Flipped(rerun.before.selected_sectors, rerun.did.arg)
    /\ (~ResetDue /\ rerun.did.kind = "clear") => session.selected_sectors = {}
    /\ (rerun.did.kind = "sector" /\ rerun.last = rerun.did)
          => session.selected_sectors = rerun.before_last.selected_sectors

\* C30 as stated: the selected-sector set kept across reruns changes only
\* by a click on a sector's button, which toggles exactly that sector (two
\* clicks on one sector restore the set), by 'Clear Selection', which
\* empties it, and by the reset to the sectors whose total hits are >= 50,
\* made when and only when no selection exists yet or the metric differs
\* from the previous rerun's; any other rerun leaves it as it was.
C30_SelectionChangesOnly ==
    Reran =>
        /\ SelectionResetAndClicks
        /\ (~ResetDue /\ rerun.did.kind \notin {"sector", "clear"})
              => session.selected_sectors = rerun.before.selected_sectors

\* C30 amended: as stated, and on the grouped page 'Select All' sets the
\* selection to every sector of sector_hits; any other rerun leaves it as
\* it was.
C30_SelectionChangesOnlyOrSelectAll ==
    Reran =>
        /\ SelectionResetAndClicks
        /\ (~ResetDue /\ rerun.did.kind = "all")
              => /\ top.page = "top_performers_grouped"
                 /\ session.selected_sectors
                      = DOMAIN sector_hits(top.df, rerun.metric_choice)
        /\ (~ResetDue /\ rerun.did.kind \notin {"sector", "clear", "all"})
              => session.selected_sectors = rerun.before.selected_sectors

\* 'Select All' was clicked on the grouped page and the selection grew to
\* both sectors.
C30_Witness ==
    /\ rerun.did.kind = "all"
    /\ session.selected_sectors = Sectors
    /\ rerun.before.selected_sectors # Sectors

\* A sector was clicked twice in a row and the selection, which the reset
\* had filled, is back to what it was.
C30_WitnessTwoClicks ==
    /\ rerun.did.kind = "sector"
    /\ rerun.last = rerun.did
    /\ session.selected_sectors = rerun.before_last.selected_sectors
    /\ session.selected_sectors # {}

\* The choice of another metric reset a selection the user had changed.
C30_WitnessReset ==
    /\ rerun.did.kind = "metric"
    /\ rerun.before.selected_sectors
          # HotSectors(top.df, rerun.before.radio)
    /\ session.selected_sectors = HotSectors(top.df, rerun.metric_choice)
    /\ session.selected_sectors # rerun.before.selected_sectors

====
